---- MODULE Spec2Model ----
(***************************************************************************)
(* Model of plot_macro_indicators.py: the synthetic-series generators      *)
(* (generate_time_series, generate_mock_data, generate_cyclical_data,      *)
(* generate_correlated_data), the three plotting routines and the          *)
(* __main__ driver.                                                        *)
(*                                                                         *)
(* Numbers.  A float64 is modelled as a fixed-point integer counting       *)
(* 1/Scale units, with three extra values NaN, PosInf, NegInf for the IEEE *)
(* results of 0/0, x/0 and of every operation on them.  Each operation     *)
(* rounds to the nearest unit, as a float operation rounds to the nearest  *)
(* float.  numpy's default error state only warns on 0/0 and x/0; it does  *)
(* not raise.                                                              *)
(*                                                                         *)
(* Random source.  numpy's process-wide generator is the variable rng.     *)
(* np.random.seed(s) overwrites it with a state that depends on s alone,   *)
(* np.random.randn(n) reads n values off it and advances it n steps.  The  *)
(* Mersenne Twister is replaced by a counter-based generator; what is kept *)
(* is that the samples are a function of the state the draw starts in.     *)
(***************************************************************************)
EXTENDS Integers, Sequences, FiniteSets, TLC

VARIABLES
    rng,        \* state of numpy's process-wide random generator
    pc,         \* driver: position in the script
    dates,      \* driver: the running plot function's local `dates`
    series,     \* driver: the running plot function's local series, by label
    returned,   \* driver: what the generator returned for each label (history)
    figs,       \* pyplot: numbers of the open figures
    cur,        \* pyplot: number of the current figure, 0 when there is none
    nfig,       \* pyplot: number of figures created so far
    lines,      \* pyplot: lines drawn on the current figure
    fs,         \* working directory: file name -> figure number and lines saved
    writes,     \* files written by this run, in order of writing
    out,        \* console output of this run
    status,     \* process exit status, -1 while running
    backend,    \* "ok": no library call fails; "faulty": any may raise
    chartOf,    \* figure number -> the plot function that created it (history)
    raisedAt,   \* position of the call that raised, if one did (history)
    input,      \* harness: the generator and arguments of the next call
    last,       \* harness: record of the most recent generator call
    marked      \* harness: record of an earlier generator call kept for comparison

vars == <<pc, rng, dates, series, returned, figs, cur, nfig, lines, fs, writes,
          out, status, backend, chartOf, raisedAt, input, last, marked>>

driverVars == <<pc, dates, series, returned, figs, cur, nfig, lines, fs, writes,
                out, status, backend, chartOf, raisedAt>>

----------------------------------------------------------------------------
(* float64 arithmetic *)

Scale == 1000
NaN == 2000000001
PosInf == 2000000002
NegInf == 2000000003

F(n, milli) == n * Scale + milli

IsNaN(x) == x = NaN
IsInf(x) == x \in {PosInf, NegInf}
IsFinite(x) == x \notin {NaN, PosInf, NegInf}

Abs(n) == IF n < 0 THEN -n ELSE n
Sign(x) == IF x = PosInf THEN 1 ELSE IF x = NegInf THEN -1
           ELSE IF x > 0 THEN 1 ELSE IF x < 0 THEN -1 ELSE 0
SignedInf(s) == IF s > 0 THEN PosInf ELSE NegInf

\* a / b rounded to the nearest integer, b # 0
RDiv(a, b) == IF b > 0 THEN (2 * a + b) \div (2 * b)
              ELSE (2 * (-a) + (-b)) \div (2 * (-b))

FNeg(x) == IF x = NaN THEN NaN ELSE IF x = PosInf THEN NegInf
           ELSE IF x = NegInf THEN PosInf ELSE -x

FAdd(x, y) ==
    IF IsNaN(x) \/ IsNaN(y) THEN NaN
    ELSE IF IsInf(x) /\ IsInf(y) THEN (IF x = y THEN x ELSE NaN)
    ELSE IF IsInf(x) THEN x
    ELSE IF IsInf(y) THEN y
    ELSE x + y

FSub(x, y) == FAdd(x, FNeg(y))

FMul(x, y) ==
    IF IsNaN(x) \/ IsNaN(y) THEN NaN
    ELSE IF IsInf(x) \/ IsInf(y)
         THEN (IF Sign(x) * Sign(y) = 0 THEN NaN ELSE SignedInf(Sign(x) * Sign(y)))
    ELSE RDiv(x * y, Scale)

FDiv(x, y) ==
    IF IsNaN(x) \/ IsNaN(y) THEN NaN
    ELSE IF IsInf(x) THEN (IF IsInf(y) THEN NaN
                           ELSE SignedInf(Sign(x) * (IF y < 0 THEN -1 ELSE 1)))
    ELSE IF IsInf(y) THEN 0
    ELSE IF y = 0 THEN (IF x = 0 THEN NaN ELSE SignedInf(Sign(x)))
    ELSE RDiv(x * Scale, y)

\* x / n for a count n > 0
FDivInt(x, n) == IF IsFinite(x) THEN RDiv(x, n) ELSE x

RECURSIVE ISqrtNewton(_, _)
ISqrtNewton(n, r) ==
    LET q == (r + n \div r) \div 2
    IN IF q >= r THEN r ELSE ISqrtNewton(n, q)

\* the integer nearest to the square root of n >= 0
ISqrt(n) == IF n = 0 THEN 0
            ELSE LET r == ISqrtNewton(n, n)
                 IN IF n - r * r > r THEN r + 1 ELSE r

FSqrt(x) ==
    IF IsNaN(x) \/ x = NegInf THEN NaN
    ELSE IF x = PosInf THEN PosInf
    ELSE IF x < 0 THEN NaN
    ELSE ISqrt(x * Scale)

Pi == 3142
HalfPi == 1571
TwoPi == 6283

\* sine of a reduced angle -pi/2 <= x <= pi/2 : x - x^3/3! + x^5/5! - x^7/7!
SinSeries(x) ==
    LET x2 == RDiv(x * x, Scale)
        x3 == RDiv(x2 * x, Scale)
        x5 == RDiv(x3 * x2, Scale)
        x7 == RDiv(x5 * x2, Scale)
    IN x - RDiv(x3, 6) + RDiv(x5, 120) - RDiv(x7, 5040)

FSin(x) ==
    IF ~IsFinite(x) THEN NaN
    ELSE LET r == x % TwoPi
         IN IF r <= HalfPi THEN SinSeries(r)
            ELSE IF r <= TwoPi - HalfPi THEN SinSeries(Pi - r)
            ELSE SinSeries(r - TwoPi)

----------------------------------------------------------------------------
(* numpy helpers on arrays (sequences) *)

\* len(a), a.shape[0]: the number of samples of an array
Size(a) == Cardinality(DOMAIN a)

RECURSIVE SumSeq(_, _, _)
\* a[lo] + ... + a[hi], summed pairwise
SumSeq(a, lo, hi) ==
    IF lo > hi THEN 0
    ELSE IF lo = hi THEN a[lo]
    ELSE LET mid == (lo + hi) \div 2
         IN FAdd(SumSeq(a, lo, mid), SumSeq(a, mid + 1, hi))

NpSum(a) == SumSeq(a, 1, Size(a))

\* np.mean: NaN (with a warning) for an empty array
NpMean(a) == IF Size(a) = 0 THEN NaN ELSE FDivInt(NpSum(a), Size(a))

\* np.std: sqrt(mean(abs(a - mean(a)) ** 2)), population standard deviation
NpStd(a) ==
    LET m == NpMean(a)
        sq == [i \in 1..Size(a) |-> FMul(FSub(a[i], m), FSub(a[i], m))]
    IN FSqrt(NpMean(sq))

\* np.linspace(start, stop, n): n evenly spaced samples, the last one is stop
NpLinspace(start, stop, n) ==
    [i \in 1..n |-> IF n > 1 /\ i = n THEN stop
                    ELSE IF n = 1 THEN start
                    ELSE start + RDiv((i - 1) * (stop - start), n - 1)]

\* numpy broadcasting of two one-dimensional arrays: equal lengths, or one of
\* them of length 1, which is stretched to the other's length (also to 0)
Broadcastable(a, b) == Size(a) = Size(b) \/ Size(a) = 1 \/ Size(b) = 1
BroadcastLen(a, b) == IF Size(a) = 1 THEN Size(b) ELSE Size(a)
At(a, i) == IF Size(a) = 1 THEN a[1] ELSE a[i]

\* array + array, for broadcastable operands
ArrAdd(a, b) == [i \in 1..BroadcastLen(a, b) |-> FAdd(At(a, i), At(b, i))]

\* scalar + array, scalar * array, array / scalar
ScalarAdd(c, a) == [i \in 1..Size(a) |-> FAdd(c, a[i])]
ScalarMul(c, a) == [i \in 1..Size(a) |-> FMul(c, a[i])]
ArrDivScalar(a, c) == [i \in 1..Size(a) |-> FDiv(a[i], c)]

----------------------------------------------------------------------------
(* numpy's global random generator: a state is [key |-> k, ctr |-> c], the  *)
(* seed it was last set from and the number of samples drawn since.        *)

\* a standard-normal-like sample, in -2.000 .. 2.000: the c-th output of the
\* stream of key k
RngSample(k, c) ==
    LET kk == k % 1009
        cc == c % 1009
    IN (((kk + 1) * 7919 + cc * cc * 31 + cc * 613) % 4001) - 2000

\* np.random.seed(seed): the state depends on the seed alone
NpRandomSeed(seed) == [key |-> seed, ctr |-> 0]

\* np.random.randn(n) on generator state s: the n samples and the state after
NpRandn(s, n) ==
    [vals |-> [i \in 1..n |-> RngSample(s.key, s.ctr + i)],
     state |-> [s EXCEPT !.ctr = s.ctr + n]]

----------------------------------------------------------------------------
(* pandas month-end date axes.  A date is its day number, counted from the *)
(* first day of StartYear.                                                 *)

StartYear == 2000
EndYear == 2025

IsLeap(y) == (y % 4 = 0 /\ y % 100 # 0) \/ y % 400 = 0

\* leap years before year y
LeapsBefore(y) == (y - 1) \div 4 - (y - 1) \div 100 + (y - 1) \div 400

\* day number of the first day of month m of year y
DayOfMonthStart(y, m) ==
    365 * (y - StartYear) + LeapsBefore(y) - LeapsBefore(StartYear)
    + <<0, 31, 59, 90, 120, 151, 181, 212, 243, 273, 304, 334>>[m]
    + (IF IsLeap(y) /\ m > 2 THEN 1 ELSE 0)

\* the last days of n consecutive months, from month m of year y
MonthEnds(y, m, n) ==
    [i \in 1..n |->
        LET t == (m - 1) + i      \* months from January of y to the month after
        IN DayOfMonthStart(y + (t \div 12), (t % 12) + 1) - 1]

\* pd.date_range(start=<y>-<m>-01, periods=n, freq='M')
generate_time_series(y, m, periods) ==
    MonthEnds(y, m, periods)

\* pd.date_range(start=<y0>-01-01, end=<y1>-12-31, freq='ME')
PdDateRange(y0, y1) ==
    MonthEnds(y0, 1, 12 * (y1 - y0 + 1))

----------------------------------------------------------------------------
(* The generators.  Each takes the generator state g it is called in and  *)
(* yields a record: raised ("none" or the exception), values (the array   *)
(* returned), rng (the generator state it leaves), seed (the seed it      *)
(* set), unit (its randn draw), and its other intermediate arrays.        *)

Seed42 == 42
Seed123 == 123

NoArray == <<>>

Raised(exc, g) ==
    [raised |-> exc, values |-> NoArray, rng |-> g, seed |-> 0, unit |-> NoArray,
     noise |-> NoArray, trend |-> NoArray, cycle |-> NoArray, angle |-> NoArray,
     normalized |-> NoArray, combined |-> NoArray, reference |-> NoArray]

generate_mock_data(g, dts, base_value, volatility) ==
    LET draw == NpRandn(NpRandomSeed(Seed42), Size(dts))
        trend == NpLinspace(0, F(2, 0), Size(dts))
        noise == ScalarMul(volatility, draw.vals)
        with_trend == ScalarAdd(base_value, trend)
    IN IF ~Broadcastable(with_trend, noise) THEN Raised("ValueError", draw.state)
       ELSE [Raised("none", g) EXCEPT
               !.values = ArrAdd(with_trend, noise),
               !.rng = draw.state, !.seed = Seed42, !.unit = draw.vals,
               !.noise = noise, !.trend = trend]

\* years = (dates - dates[0]).days.values / 365.25
CyclicalYears(dts) ==
    [i \in 1..Size(dts) |-> RDiv((dts[i] - dts[1]) * Scale * 4, 1461)]

\* amplitude * np.sin(2 * np.pi * years / cycle_years + phase_shift)
CyclicalAngle(years, cycle_years, phase_shift) ==
    ScalarAdd(phase_shift, ArrDivScalar(ScalarMul(TwoPi, years), cycle_years))

CyclicalTrendShort(dts) == NpLinspace(F(-1, 0), F(1, 0), Size(dts) - 1)

CyclicalTrendFromZero(dts) == NpLinspace(0, F(2, 0), Size(dts))

\* trend = np.linspace(-1, 1, len(dates))
CyclicalTrend(dts) == NpLinspace(F(-1, 0), F(1, 0), Size(dts))

CyclicalDrawUnseeded(g, dts) == NpRandn(g, Size(dts))

CyclicalDrawSeedAfter(g, dts) ==
    [vals |-> NpRandn(g, Size(dts)).vals, state |-> NpRandomSeed(Seed42)]

\* np.random.seed(42); np.random.randn(len(dates))
CyclicalDraw(g, dts) == NpRandn(NpRandomSeed(Seed42), Size(dts))

generate_cyclical_data(g, dts, base_value, amplitude, cycle_years, noise_level, phase_shift) ==
    IF Size(dts) = 0 THEN Raised("IndexError", g)      \* dates[0]
    ELSE
    LET angle == CyclicalAngle(CyclicalYears(dts), cycle_years, phase_shift)
        cycle_component == [i \in 1..Size(angle) |-> FMul(amplitude, FSin(angle[i]))]
        trend == CyclicalTrend(dts)
        draw == CyclicalDraw(g, dts)
        noise == ScalarMul(noise_level, draw.vals)
        with_cycle == ScalarAdd(base_value, cycle_component)
    IN IF ~Broadcastable(with_cycle, trend)
          \/ ~Broadcastable(ArrAdd(with_cycle, trend), noise)
       THEN Raised("ValueError", draw.state)
       ELSE [Raised("none", g) EXCEPT
               !.values = ArrAdd(ArrAdd(with_cycle, trend), noise),
               !.rng = draw.state, !.seed = Seed42, !.unit = draw.vals,
               !.noise = noise, !.trend = trend, !.cycle = cycle_component,
               !.angle = angle]

NormalizeGuarded(reference_data) ==
    LET std == NpStd(reference_data)
    IN ArrDivScalar(ScalarAdd(FNeg(NpMean(reference_data)), reference_data),
                    IF std = 0 THEN F(1, 0) ELSE std)

\* (reference_data - np.mean(reference_data)) / np.std(reference_data)
Normalize(reference_data) ==
    ArrDivScalar(ScalarAdd(FNeg(NpMean(reference_data)), reference_data),
                 NpStd(reference_data))

IndependentWeightSignSlip(correlation) ==
    FSqrt(FAdd(F(1, 0), FMul(correlation, correlation)))

\* np.sqrt(1 - correlation**2)
IndependentWeight(correlation) ==
    FSqrt(FSub(F(1, 0), FMul(correlation, correlation)))

NormalizeInPlace(reference_data) == Normalize(reference_data)

\* the caller's reference array after the call: no statement writes to it
ReferenceAfter(reference_data) == reference_data

generate_correlated_data(g, reference_data, correlation, base_shift, amplitude_ratio) ==
    LET draw == NpRandn(NpRandomSeed(Seed123), Size(reference_data))
        ref_normalized == Normalize(reference_data)
        independent_noise == draw.vals
        correlated_component == ScalarMul(correlation, ref_normalized)
        independent_component ==
            ScalarMul(IndependentWeight(correlation), independent_noise)
        combined == ArrAdd(correlated_component, independent_component)
        scaled == ScalarMul(amplitude_ratio,
                            ScalarMul(NpStd(reference_data), combined))
    IN IF ~Broadcastable(correlated_component, independent_component)
       THEN Raised("ValueError", draw.state)
       ELSE [Raised("none", g) EXCEPT
               !.values = ScalarAdd(base_shift,
                              ScalarAdd(NpMean(reference_data), scaled)),
               !.rng = draw.state, !.seed = Seed123, !.unit = draw.vals,
               !.normalized = ref_normalized, !.combined = combined,
               !.reference = ReferenceAfter(reference_data)]

----------------------------------------------------------------------------
(* Harness: the generators called directly, on arguments drawn from       *)
(* bounded sets, in a process whose random generator starts in any state. *)

MaxPeriods == 3
MaxRefLen == 3
MaxSeqPeriods == 2

\* states the process-wide generator may be in before the first call
EntropyStates == {[key |-> 7, ctr |-> 0], [key |-> 42, ctr |-> 2],
                  [key |-> 123, ctr |-> 1]}

StartYears == {2000, 2021}
Axes == {generate_time_series(y, 1, n) : y \in StartYears, n \in 0..MaxPeriods}
BaseValues == {F(9, 0), F(50, 0)}
Amplitudes == {F(3, 0), F(15, 0)}
CycleYears == {F(7, 0), F(-6, 0)}
NoiseLevels == {F(0, 300), F(0, 800)}
PhaseShifts == {0, F(1, 500)}
Volatilities == {F(0, 300), F(1, 0)}
RefValues == {F(1, 0), F(1, 10), F(3, 0)}
References == UNION {[1..n -> RefValues] : n \in 0..MaxRefLen}
Correlations == {0, F(0, 850), F(1, 0)}
BaseShifts == {0, F(-40, 0)}
AmplitudeRatios == {F(0, 600), F(1, 0)}

Pending(fn, args) == [fn |-> fn, args |-> args, pending |-> TRUE]

CyclicalInputs(axes, bases, amps, cycles, noises, phases) ==
    {Pending("generate_cyclical_data", <<d, b, a, c, s, p>>) :
        d \in axes, b \in bases, a \in amps, c \in cycles, s \in noises,
        p \in phases}

CorrelatedInputs(refs, corrs, shifts, ratios) ==
    {Pending("generate_correlated_data", <<r, c, b, a>>) :
        r \in refs, c \in corrs, b \in shifts, a \in ratios}

MockInputs(axes, bases, vols) ==
    {Pending("generate_mock_data", <<d, b, v>>) :
        d \in axes, b \in bases, v \in vols}

GenInputs ==
    CyclicalInputs(Axes, BaseValues, Amplitudes, CycleYears, NoiseLevels, PhaseShifts)
    \cup CorrelatedInputs(References, Correlations, BaseShifts, AmplitudeRatios)
    \cup MockInputs(Axes, BaseValues, Volatilities)

\* the lean inputs of call sequences: every axis length from one start, and a
\* second axis of the longest length with other dates
SeqAxes == {generate_time_series(2000, 1, n) : n \in 0..MaxSeqPeriods}
           \cup {generate_time_series(2021, 1, MaxSeqPeriods)}

SeqInputs ==
    CyclicalInputs(SeqAxes, {F(9, 0)}, {F(3, 0)}, {F(7, 0)}, NoiseLevels, {0})
    \cup CorrelatedInputs({<<F(1, 0), F(3, 0)>>}, {F(0, 850)}, {F(-40, 0)},
                          {F(0, 600)})
    \cup MockInputs({generate_time_series(2000, 1, MaxSeqPeriods)}, {F(9, 0)},
                    {F(0, 300)})

NoCall == [fn |-> "none", args |-> <<>>, pre |-> [key |-> 0, ctr |-> 0],
           res |-> Raised("none", [key |-> 0, ctr |-> 0])]

\* the call record of a generator applied in generator state rng
Called(res) == [fn |-> input.fn, args |-> input.args, pre |-> rng, res |-> res]

Return(res) ==
    /\ last' = Called(res)
    /\ rng' = res.rng
    /\ input' = [input EXCEPT !.pending = FALSE]
    /\ UNCHANGED marked
    /\ UNCHANGED driverVars

CallMock ==
    /\ input.pending
    /\ input.fn = "generate_mock_data"
    /\ Return(generate_mock_data(rng, input.args[1], input.args[2], input.args[3]))

CallCyclical ==
    /\ input.pending
    /\ input.fn = "generate_cyclical_data"
    /\ Return(generate_cyclical_data(rng, input.args[1], input.args[2],
                                     input.args[3], input.args[4], input.args[5],
                                     input.args[6]))

CallCorrelated ==
    /\ input.pending
    /\ input.fn = "generate_correlated_data"
    /\ Return(generate_correlated_data(rng, input.args[1], input.args[2],
                                       input.args[3], input.args[4]))

\* the harness picks the next call
NextInput ==
    /\ ~input.pending
    /\ input' \in SeqInputs
    /\ UNCHANGED <<rng, last, marked>>
    /\ UNCHANGED driverVars

\* the harness keeps the record of the call just made
Mark ==
    /\ ~input.pending
    /\ marked # last
    /\ marked' = last
    /\ UNCHANGED <<rng, input, last>>
    /\ UNCHANGED driverVars

NotRaised == <<0, "none", 0>>

DriverIdle ==
    /\ pc = <<0, "idle", 0>>
    /\ dates = <<>>
    /\ series = <<>>
    /\ returned = <<>>
    /\ figs = {}
    /\ cur = 0
    /\ nfig = 0
    /\ lines = <<>>
    /\ fs = <<>>
    /\ writes = <<>>
    /\ out = <<>>
    /\ status = -1
    /\ backend = "ok"
    /\ chartOf = <<>>
    /\ raisedAt = NotRaised

GenInit ==
    /\ rng \in EntropyStates
    /\ input \in GenInputs
    /\ last = NoCall
    /\ marked = NoCall
    /\ DriverIdle

GenNext == CallMock \/ CallCyclical \/ CallCorrelated

GenSpec == GenInit /\ [][GenNext]_vars

SeqInit ==
    /\ rng \in EntropyStates
    /\ input \in SeqInputs
    /\ last = NoCall
    /\ marked = NoCall
    /\ DriverIdle

SeqNext == CallMock \/ CallCyclical \/ CallCorrelated \/ NextInput \/ Mark

SeqSpec == SeqInit /\ [][SeqNext]_vars

----------------------------------------------------------------------------
(* The script run as a program.  pc = <<k, step, j>>: k is the position in *)
(* MainCalls of the running plot function (0 before the first, 4 after the *)
(* last), step the statement reached in it, j the index of the series or   *)
(* of the print statement.  File names and messages are ASCII stand-ins    *)
(* for the script's Chinese literals.                                      *)

MainCallsSwapped == <<"plot_six_cycle_model", "plot_macro_innovation",
                      "plot_hot_money_cycle">>

\* the plot functions in the order __main__ calls them
MainCalls == <<"plot_macro_innovation", "plot_six_cycle_model",
               "plot_hot_money_cycle">>

\* the file each plot function saves
FileName(fn) ==
    CASE fn = "plot_macro_innovation" -> "macro_innovation.jpg"
      [] fn = "plot_six_cycle_model" -> "six_cycle_model.jpg"
      [] fn = "plot_hot_money_cycle" -> "hot_money_cycle.jpg"

FileNames == {FileName(MainCalls[k]) : k \in 1..Len(MainCalls)}

Cyc(label, b, a, c, s, p) ==
    [label |-> label, kind |-> "cyclical", base_value |-> b, amplitude |-> a,
     cycle_years |-> c, noise_level |-> s, phase_shift |-> p, ref |-> "",
     correlation |-> 0, base_shift |-> 0, amplitude_ratio |-> 0]

Cor(label, ref, c, b, a) ==
    [label |-> label, kind |-> "correlated", base_value |-> 0, amplitude |-> 0,
     cycle_years |-> 0, noise_level |-> 0, phase_shift |-> 0, ref |-> ref,
     correlation |-> c, base_shift |-> b, amplitude_ratio |-> a]

\* the generator calls of each plot function, in order, with their literals
Plan(fn) ==
    CASE fn = "plot_macro_innovation" ->
           << Cyc("m2_growth", F(9, 0), F(3, 0), F(7, 0), F(0, 300), 0),
              Cyc("social_finance", F(11, 0), F(4, 0), F(6, 0), F(0, 800), F(1, 0)),
              Cyc("export_growth", F(6, 0), F(5, 0), F(5, 0), F(1, 200), F(2, 0)),
              Cyc("investment_growth", F(7, 500), F(3, 500), F(8, 0), F(0, 900),
                  F(3, 0)) >>
      [] fn = "plot_six_cycle_model" ->
           << Cyc("currency", F(50, 0), F(15, 0), F(9, 0), F(0, 200), 0),
              Cyc("credit", F(55, 0), F(18, 0), F(7, 0), F(0, 400), F(1, 500)),
              Cyc("growth", F(48, 0), F(16, 0), F(6, 0), F(0, 400), F(3, 0)) >>
      [] fn = "plot_hot_money_cycle" ->
           << Cyc("fed_liquidity", F(100, 0), F(25, 0), F(10, 0), F(0, 500), 0),
              Cor("china_cds", "fed_liquidity", F(0, 850), F(-40, 0), F(0, 600)) >>

\* console lines of __main__ before the first and after the last plot function
PrintsBefore == <<"start", "">>
PrintsAfter == <<"", "all charts generated", "- macro_innovation.jpg",
                 "- six_cycle_model.jpg", "- hot_money_cycle.jpg">>

Running == status = -1
Fn == MainCalls[pc[1]]
InChart(step) == Running /\ pc[1] \in 1..Len(MainCalls) /\ pc[2] = step
Job == Plan(Fn)[pc[3]]

AbsentFile == [state |-> "absent", fig |-> 0, lines |-> <<>>]
OldFile == [state |-> "old", fig |-> 0, lines |-> <<>>]

UNCHANGED_pyplot == UNCHANGED <<figs, cur, nfig, lines, chartOf>>
UNCHANGED_files == UNCHANGED <<fs, writes>>
UNCHANGED_locals == UNCHANGED <<dates, series, returned>>
UNCHANGED_harness == UNCHANGED <<input, last, marked>>

MaxOf(S) == CHOOSE x \in S : \A y \in S : y <= x

\* an exception leaves the frame: nothing catches it, the interpreter exits 1
Propagate ==
    /\ raisedAt' = pc
    /\ status' = 1
    /\ UNCHANGED <<pc, out>>

\* print(...) statements of __main__
MainPrint ==
    /\ Running
    /\ pc[2] = "print"
    /\ pc[1] \in {0, Len(MainCalls) + 1}
    /\ LET msgs == IF pc[1] = 0 THEN PrintsBefore ELSE PrintsAfter
       IN /\ out' = Append(out, msgs[pc[3]])
          /\ pc' = IF pc[3] < Len(msgs) THEN <<pc[1], "print", pc[3] + 1>>
                   ELSE IF pc[1] = 0 THEN <<1, "dates", 0>>
                   ELSE <<pc[1], "exit", 0>>
    /\ UNCHANGED <<rng, status, backend, raisedAt>>
    /\ UNCHANGED_pyplot /\ UNCHANGED_files /\ UNCHANGED_locals /\ UNCHANGED_harness

\* dates = pd.date_range(start='2000-01-01', end='2025-12-31', freq='ME')
DateRange ==
    /\ InChart("dates")
    /\ dates' = PdDateRange(StartYear, EndYear)
    /\ pc' = <<pc[1], "gen", 1>>
    /\ UNCHANGED <<rng, series, returned, out, status, backend, raisedAt>>
    /\ UNCHANGED_pyplot /\ UNCHANGED_files /\ UNCHANGED_harness

AfterGen == IF pc[3] < Len(Plan(Fn)) THEN <<pc[1], "gen", pc[3] + 1>>
            ELSE <<pc[1], "figure", 0>>

\* <label> = generate_cyclical_data(dates, ...)
GenerateCyclical ==
    /\ InChart("gen")
    /\ Job.kind = "cyclical"
    /\ LET res == generate_cyclical_data(rng, dates, Job.base_value, Job.amplitude,
                      Job.cycle_years, Job.noise_level, Job.phase_shift)
       IN /\ rng' = res.rng
          /\ IF res.raised = "none"
             THEN /\ series' = series @@ (Job.label :> res.values)
                  /\ returned' = returned @@ (Job.label :> res.values)
                  /\ pc' = AfterGen
                  /\ UNCHANGED <<status, raisedAt, out>>
             ELSE /\ Propagate
                  /\ UNCHANGED <<series, returned>>
    /\ UNCHANGED <<dates, backend>>
    /\ UNCHANGED_pyplot /\ UNCHANGED_files /\ UNCHANGED_harness

\* <label> = generate_correlated_data(<ref>, ...): the reference array is passed
\* by reference, so the caller sees whatever the call did to it
GenerateCorrelated ==
    /\ InChart("gen")
    /\ Job.kind = "correlated"
    /\ LET res == generate_correlated_data(rng, series[Job.ref], Job.correlation,
                      Job.base_shift, Job.amplitude_ratio)
       IN /\ rng' = res.rng
          /\ IF res.raised = "none"
             THEN /\ series' = [series EXCEPT ![Job.ref] = res.reference]
                                 @@ (Job.label :> res.values)
                  /\ returned' = returned @@ (Job.label :> res.values)
                  /\ pc' = AfterGen
                  /\ UNCHANGED <<status, raisedAt, out>>
             ELSE /\ Propagate
                  /\ UNCHANGED <<series, returned>>
    /\ UNCHANGED <<dates, backend>>
    /\ UNCHANGED_pyplot /\ UNCHANGED_files /\ UNCHANGED_harness

\* plt.figure(figsize=...) / plt.subplots(figsize=...): a new current figure
Figure ==
    /\ InChart("figure")
    /\ nfig' = nfig + 1
    /\ figs' = figs \cup {nfig + 1}
    /\ cur' = nfig + 1
    /\ lines' = lines @@ ((nfig + 1) :> <<>>)
    /\ chartOf' = chartOf @@ ((nfig + 1) :> Fn)
    /\ pc' = <<pc[1], "plot", 1>>
    /\ UNCHANGED <<rng, out, status, backend, raisedAt>>
    /\ UNCHANGED_files /\ UNCHANGED_locals /\ UNCHANGED_harness

\* plt.plot(dates, <series>, label=...) / ax.plot(...): a line on the current figure
Plot ==
    /\ InChart("plot")
    /\ lines' = [lines EXCEPT ![cur] =
                    Append(@, [label |-> Job.label, x |-> dates,
                               y |-> series[Job.label]])]
    /\ pc' = IF pc[3] < Len(Plan(Fn)) THEN <<pc[1], "plot", pc[3] + 1>>
             ELSE <<pc[1], "style", 0>>
    /\ UNCHANGED <<rng, figs, cur, nfig, chartOf, out, status, backend, raisedAt>>
    /\ UNCHANGED_files /\ UNCHANGED_locals /\ UNCHANGED_harness

\* labels, legend, grid, date formatter and locator, xticks, tight_layout
Style ==
    /\ InChart("style")
    /\ pc' = <<pc[1], "savefig", 0>>
    /\ UNCHANGED <<rng, out, status, backend, raisedAt>>
    /\ UNCHANGED_pyplot /\ UNCHANGED_files /\ UNCHANGED_locals /\ UNCHANGED_harness

\* plt.savefig(<file>, dpi=300, bbox_inches='tight'): the current figure is
\* written to the file, replacing what was there
SaveFig ==
    /\ InChart("savefig")
    /\ fs' = [fs EXCEPT ![FileName(Fn)] =
                [state |-> "written", fig |-> cur, lines |-> lines[cur]]]
    /\ writes' = Append(writes, FileName(Fn))
    /\ pc' = <<pc[1], "close", 0>>
    /\ UNCHANGED <<rng, out, status, backend, raisedAt>>
    /\ UNCHANGED_pyplot /\ UNCHANGED_locals /\ UNCHANGED_harness

CloseForgotten ==
    /\ InChart("close")
    /\ pc' = <<pc[1], "printed", 0>>
    /\ UNCHANGED <<rng, out, status, backend, raisedAt>>
    /\ UNCHANGED_pyplot /\ UNCHANGED_files /\ UNCHANGED_locals /\ UNCHANGED_harness

\* plt.close(): the current figure is destroyed
Close ==
    /\ InChart("close")
    /\ figs' = figs \ {cur}
    /\ cur' = IF figs \ {cur} = {} THEN 0 ELSE MaxOf(figs \ {cur})
    /\ lines' = [f \in figs \ {cur} |-> lines[f]]
    /\ pc' = <<pc[1], "printed", 0>>
    /\ UNCHANGED <<rng, nfig, chartOf, out, status, backend, raisedAt>>
    /\ UNCHANGED_files /\ UNCHANGED_locals /\ UNCHANGED_harness

\* print("generated: <file>") and the return: the locals are dropped
PrintGenerated ==
    /\ InChart("printed")
    /\ out' = Append(out, FileName(Fn))
    /\ dates' = <<>>
    /\ series' = <<>>
    /\ pc' = IF pc[1] < Len(MainCalls) THEN <<pc[1] + 1, "dates", 0>>
             ELSE <<pc[1] + 1, "print", 1>>
    /\ UNCHANGED <<rng, returned, status, backend, raisedAt>>
    /\ UNCHANGED_pyplot /\ UNCHANGED_files /\ UNCHANGED_harness

\* the end of the script: the interpreter exits 0
Exit ==
    /\ Running
    /\ pc[2] = "exit"
    /\ status' = 0
    /\ pc' = <<pc[1], "done", 0>>
    /\ UNCHANGED <<rng, out, backend, raisedAt>>
    /\ UNCHANGED_pyplot /\ UNCHANGED_files /\ UNCHANGED_locals /\ UNCHANGED_harness

LibrarySteps == {"dates", "gen", "figure", "plot", "style", "savefig", "close"}

RaiseSwallowed ==
    /\ Running
    /\ backend = "faulty"
    /\ pc[2] \in LibrarySteps
    /\ raisedAt' = pc
    /\ pc' = IF pc[1] < Len(MainCalls) THEN <<pc[1] + 1, "dates", 0>>
             ELSE <<pc[1] + 1, "print", 1>>
    /\ UNCHANGED <<rng, out, status, backend>>
    /\ UNCHANGED_pyplot /\ UNCHANGED_files /\ UNCHANGED_locals /\ UNCHANGED_harness

\* a pandas, numpy or matplotlib call raises (a rejected frequency alias, no
\* memory, an unwritable directory, ...): the script has no try statement
Raise ==
    /\ Running
    /\ backend = "faulty"
    /\ pc[2] \in LibrarySteps
    /\ Propagate
    /\ UNCHANGED <<rng, backend>>
    /\ UNCHANGED_pyplot /\ UNCHANGED_files /\ UNCHANGED_locals /\ UNCHANGED_harness

Init ==
    /\ rng \in EntropyStates
    /\ pc = <<0, "print", 1>>
    /\ dates = <<>>
    /\ series = <<>>
    /\ returned = <<>>
    /\ figs = {}
    /\ cur = 0
    /\ nfig = 0
    /\ lines = <<>>
    /\ fs \in [FileNames -> {AbsentFile, OldFile}]
    /\ writes = <<>>
    /\ out = <<>>
    /\ status = -1
    /\ backend \in {"ok", "faulty"}
    /\ chartOf = <<>>
    /\ raisedAt = NotRaised
    /\ input = [fn |-> "none", args |-> <<>>, pending |-> FALSE]
    /\ last = NoCall
    /\ marked = NoCall

Next ==
    \/ MainPrint
    \/ DateRange
    \/ GenerateCyclical
    \/ GenerateCorrelated
    \/ Figure
    \/ Plot
    \/ Style
    \/ SaveFig
    \/ Close
    \/ PrintGenerated
    \/ Exit
    \/ Raise

Spec == Init /\ [][Next]_vars

\* the statements of the script other than the generator calls
Statement ==
    \/ MainPrint
    \/ DateRange
    \/ Figure
    \/ Plot
    \/ Style
    \/ SaveFig
    \/ Close
    \/ PrintGenerated
    \/ Exit

\* control comes back from a generator call: the generators have no loop
CallReturns == InChart("gen") /\ pc' = AfterGen

\* the interpreter runs the script to its end: it never pauses forever
\* between two statements, and a generator call comes back
FairSpec == Spec /\ WF_vars(Statement) /\ WF_pc(CallReturns)

----------------------------------------------------------------------------
(* Properties *)

ExpectedFiles == <<"macro_innovation.jpg", "six_cycle_model.jpg",
                   "hot_money_cycle.jpg">>

SummaryPrinted == \E i \in DOMAIN out : out[i] = "all charts generated"

WrittenInOrder ==
    /\ Len(writes) <= Len(ExpectedFiles)
    /\ writes = SubSeq(ExpectedFiles, 1, Len(writes))

AllWritten ==
    /\ writes = ExpectedFiles
    /\ \A f \in FileNames : fs[f].state = "written" /\ Len(fs[f].lines) > 0

\* at a generator call of a chart, the arguments of the call are bound: the
\* call is one of the two generators, and a reference series it names has
\* been assigned by an earlier statement of the same function
CallReady ==
    InChart("gen") =>
        /\ pc[3] \in DOMAIN Plan(Fn)
        /\ dates = PdDateRange(StartYear, EndYear)
        /\ Job.kind \in {"cyclical", "correlated"}
        /\ Job.kind = "correlated" => Job.ref \in DOMAIN series

\* C1: with a working backend the driver always terminates with status 0,
\* having written exactly the three files, macro_innovation.jpg, then
\* six_cycle_model.jpg, then hot_money_cycle.jpg, and no other; the completion
\* summary is printed only after the third file is written.
C1_DriverCompletes ==
    /\ [](CallReady)
    /\ [](WrittenInOrder)
    /\ [](SummaryPrinted => writes = ExpectedFiles)
    /\ [](backend = "ok" => status \in {-1, 0})
    /\ [](status = 0 => AllWritten /\ SummaryPrinted)
    /\ ((backend = "ok") ~> (status = 0))

C1_Witness ==
    /\ backend = "ok"
    /\ status = 0
    /\ writes = ExpectedFiles

Returned == ~input.pending /\ last.fn # "none" /\ last.res.raised = "none"

DegenerateCall ==
    /\ ~input.pending
    /\ last.fn = "generate_correlated_data"
    /\ NpStd(last.args[1]) = 0

OneFigureAtATime == Cardinality(figs) <= 1 /\ (cur = 0 <=> figs = {})

\* generation for a plot function starts with every earlier figure saved and closed
ClosedBeforeNext ==
    (pc[1] \in 1..Len(MainCalls) /\ pc[2] \in {"dates", "gen", "figure"}) =>
        /\ figs = {}
        /\ Len(writes) = pc[1] - 1

\* a figure is closed only once it is saved
SavedBeforeClosed ==
    (pc[1] \in 1..Len(MainCalls) /\ pc[2] = "printed") =>
        /\ figs = {}
        /\ Len(writes) = pc[1]
        /\ fs[writes[pc[1]]].state = "written"

\* every file was written from the figure its own plot function created
NoSharedFigure ==
    \A i \in DOMAIN writes :
        /\ fs[writes[i]].fig \in DOMAIN chartOf
        /\ FileName(chartOf[fs[writes[i]].fig]) = writes[i]
        /\ \A j \in DOMAIN writes : j # i => fs[writes[j]].fig # fs[writes[i]].fig

\* C3: at most one figure is open at any time; each chart's figure is saved and
\* then closed before the next chart's generation begins; no figure is shared
\* between charts; no figure is open when the driver completes.
C3_FigureLifecycle ==
    /\ OneFigureAtATime
    /\ ClosedBeforeNext
    /\ SavedBeforeClosed
    /\ NoSharedFigure
    /\ (status = 0 => figs = {} /\ nfig = Len(MainCalls))

C3_Witness ==
    /\ pc = <<3, "close", 0>>
    /\ figs = {3}
    /\ Len(writes) = 3

CrashState ==
    LET k == raisedAt[1]
    IN /\ status = 1
       /\ pc = raisedAt
       /\ k \in 1..Len(MainCalls)
       /\ WrittenInOrder
       /\ Len(writes) \in {k - 1, k}
       /\ Len(writes) = k => raisedAt[2] = "close"
       /\ \A i \in DOMAIN writes : fs[writes[i]].state = "written"
       /\ \A i \in DOMAIN out : out[i] # ExpectedFiles[k]
       /\ ~SummaryPrinted

\* C4: a failure while generating or rendering chart k propagates uncaught and
\* ends the process with a non-zero status: no later chart is generated or
\* written, the files written before stay in place, nothing is retried (no
\* step follows the failure) and the completion summary is not printed.
C4_FailureTerminates ==
    /\ [](raisedAt # NotRaised => CrashState)
    /\ [](status = 1 => raisedAt # NotRaised)
    /\ [][raisedAt = NotRaised]_vars

C4_Witness ==
    /\ raisedAt = <<2, "savefig", 0>>
    /\ status = 1
    /\ writes = <<"macro_innovation.jpg">>

\* C5: every series a generator returns is as long as the date axis (for
\* generate_correlated_data: the reference series) it was given.
C5_LengthMatchesAxis ==
    Returned => Len(last.res.values) = Len(last.args[1])

C5_Witness ==
    /\ Returned
    /\ last.fn = "generate_cyclical_data"
    /\ Len(last.args[1]) = 1
    /\ Len(last.res.values) = 1

SameCall ==
    /\ marked.fn # "none"
    /\ marked.fn = last.fn
    /\ marked.args = last.args

\* C6: two calls of a generator with identical arguments return identical
\* series (or raise the same exception), whatever calls ran before or between
\* them and whatever state the random generator was in.
C6_Deterministic ==
    SameCall =>
        /\ marked.res.values = last.res.values
        /\ marked.res.raised = last.res.raised

C6_Witness ==
    /\ SameCall
    /\ marked.fn = "generate_cyclical_data"
    /\ marked.pre # last.pre
    /\ Len(last.res.values) = MaxSeqPeriods

RoundingTol(std, ratio) == ((std + Scale) * Abs(ratio)) \div (2 * Scale * Scale) + 2

FullCorrelationCall ==
    /\ ~input.pending
    /\ last.fn = "generate_correlated_data"
    /\ last.args[2] = F(1, 0)
    /\ IsFinite(NpStd(last.args[1]))
    /\ NpStd(last.args[1]) > 0

\* C7: with correlation = 1 and a reference R of positive standard deviation,
\* the noise contributes nothing (combined is the normalized reference itself)
\* and every sample is (R_i - mean(R)) * amplitude_ratio + mean(R) + base_shift,
\* to within the rounding of the arithmetic.
C7_FullCorrelationIsAffine ==
    FullCorrelationCall =>
        LET R == last.args[1]
            mean == NpMean(R)
            tol == RoundingTol(NpStd(R), last.args[4])
        IN /\ last.res.raised = "none"
           /\ last.res.combined = last.res.normalized
           /\ \A i \in DOMAIN R :
                 /\ IsFinite(last.res.values[i])
                 /\ Abs(last.res.values[i]
                        - (FMul(R[i] - mean, last.args[4]) + mean + last.args[3]))
                       <= tol

C7_Witness ==
    /\ FullCorrelationCall
    /\ Len(last.args[1]) = 3
    /\ \A i \in 1..3 : Abs(last.res.unit[i]) > 100

CyclicalCall(n) ==
    /\ Returned
    /\ last.fn = "generate_cyclical_data"
    /\ Len(last.args[1]) >= n

\* C8: on an axis of N >= 2 dates the trend of generate_cyclical_data is a
\* linear ramp, -1 at index 0 and +1 at index N-1, whatever the base value and
\* amplitude; sample 0 is B + A*sin(phase_shift) - 1 + noise_0 and sample N-1
\* is B + A*sin(phase at N-1) + 1 + noise_{N-1}.
C8_TrendEndpoints ==
    CyclicalCall(2) =>
        LET r == last.res
            N == Len(last.args[1])
            B == last.args[2]
            A == last.args[3]
            sigma == last.args[5]
            phi == last.args[6]
        IN /\ Len(r.trend) = N
           /\ r.trend[1] = F(-1, 0)
           /\ r.trend[N] = F(1, 0)
           /\ \A i \in 1..N :
                 2 * Abs((N - 1) * (r.trend[i] + Scale) - 2 * Scale * (i - 1))
                    <= N - 1
           /\ r.noise[1] = FMul(sigma, r.unit[1])
           /\ r.noise[N] = FMul(sigma, r.unit[N])
           /\ r.values[1] = B + FMul(A, FSin(phi)) - Scale + r.noise[1]
           /\ r.values[N] = B + FMul(A, FSin(r.angle[N])) + Scale + r.noise[N]

C8_Witness ==
    /\ CyclicalCall(3)
    /\ last.args[6] # 0
    /\ last.res.noise[3] # 0

TwoCyclicalCalls ==
    /\ marked.fn = "generate_cyclical_data"
    /\ last.fn = "generate_cyclical_data"
    /\ marked.res.raised = "none"
    /\ last.res.raised = "none"
    /\ Len(marked.args[1]) = Len(last.args[1])

ScaledUnit(call) ==
    \A i \in DOMAIN call.res.unit :
        call.res.noise[i] = FMul(call.args[5], call.res.unit[i])

\* C9: every call of generate_cyclical_data reseeds the random generator with
\* the same seed before drawing, so two cyclical series over axes of the same
\* length share their unit noise vector sample for sample (each one's noise is
\* that vector scaled by its noise level), in whatever order they are called;
\* generate_correlated_data reseeds with another seed.
C9_SharedNoise ==
    /\ TwoCyclicalCalls =>
          /\ marked.res.unit = last.res.unit
          /\ ScaledUnit(marked)
          /\ ScaledUnit(last)
          /\ marked.res.rng = last.res.rng
    /\ (marked.fn = "generate_cyclical_data" /\ marked.res.raised = "none"
        /\ last.fn = "generate_correlated_data") =>
          /\ marked.res.seed # last.res.seed
          /\ marked.res.rng.key = marked.res.seed
          /\ last.res.rng.key = last.res.seed

C9_Witness ==
    /\ TwoCyclicalCalls
    /\ marked.args[1] # last.args[1]
    /\ marked.args[5] # last.args[5]
    /\ marked.pre.key # last.pre.key
    /\ Len(last.res.unit) = MaxSeqPeriods

DrawnAsReturned(ls) ==
    \A i \in DOMAIN ls :
        /\ ls[i].label \in DOMAIN returned
        /\ ls[i].y = returned[ls[i].label]
        /\ Len(ls[i].x) = Len(ls[i].y)

\* C10: a series is never changed after its generator returned it: the
\* reference series exists in full before generate_correlated_data is called
\* and is the same after the call, and every line drawn or saved holds exactly
\* the values the generator returned.
C10_SeriesImmutable ==
    /\ \A l \in DOMAIN series : l \in DOMAIN returned /\ series[l] = returned[l]
    /\ \A f \in figs : DrawnAsReturned(lines[f]) /\ \A i \in DOMAIN lines[f] : lines[f][i].x = dates
    /\ \A f \in FileNames : DrawnAsReturned(fs[f].lines)
    /\ (InChart("gen") /\ Job.kind = "correlated") =>
          /\ Job.ref \in DOMAIN series
          /\ Len(series[Job.ref]) = Len(dates)

C10_Witness ==
    /\ pc = <<3, "style", 0>>
    /\ Len(lines[cur]) = 2
    /\ lines[cur][1].y = returned["fed_liquidity"]
    /\ lines[cur][2].y = returned["china_cds"]

====
